---- MODULE Spec2Model ----
(***************************************************************************)
(* State-machine model of src/ai_events_crawler.py (class AIEventsCrawler):*)
(* the catalog file, the in-memory catalog self.events, and the position   *)
(* of the single-threaded process inside __init__ / add_event / run().     *)
(*                                                                         *)
(* Python strings are sequences of one-character strings, so that the      *)
(* f-string of generate_event_id is a real concatenation and the sort key  *)
(* comparison is the real code-point-wise comparison.  A non-ASCII         *)
(* character is written as its code point name ("U+2022").  hashlib.md5 is *)
(* taken to be injective on its input, so the key string stands for the    *)
(* digest.  Of the twelve fields of an event only name, date, venue are    *)
(* read by the code; theme stands for the payload fields the code only     *)
(* carries, rank is the '#' field.                                         *)
(***************************************************************************)
EXTENDS Integers, Sequences, FiniteSets, TLC

VARIABLES
  disk,             \* content of the catalog file at data_file
  disk0,            \* history: the catalog file before the first process
  data_file,        \* self.data_file, as the sequence of its path components
  pc,               \* position of the process
  events,           \* self.events
  idx,              \* position of the for loop of crawl_major_ai_events
  new_events_added, \* local counter of crawl_major_ai_events
  lenAtRun,         \* history: len(self.events) when run() was called
  skipped,          \* history: candidates of this run that add_event refused
  arg,              \* history: argument of the last add_event call
  ret,              \* history: outcome of the last add_event call
  prev,             \* history: self.events when the last add_event was called
  post,             \* history: self.events when the last add_event returned
  added,            \* history: events appended since the object was built
  loaded,           \* history: what load_existing_data put in self.events
  fromRun,          \* history: the file loaded had been written by save_data
  diskAtStart,      \* history: the file when the object was built / run() began
  written,          \* history: the file was last written by save_data
  touched,          \* history: add_event was called from outside run()
  failedAt,         \* which step raised, "none" if none
  runs,             \* number of run() calls so far
  nadds             \* number of outside add_event calls so far

vars == <<disk, disk0, data_file, pc, events, idx, new_events_added, lenAtRun,
          skipped, arg, ret,
          prev, post, added, loaded, fromRun, diskAtStart, written, touched, failedAt,
          runs, nadds>>

(***************************************************************************)
(* Bounds of the model.                                                    *)
(***************************************************************************)
MaxRuns == 2
MaxAdds == 1
MaxFileLen == 1

(***************************************************************************)
(* Python values.                                                          *)
(***************************************************************************)
\* the value None
Null == <<"<None>">>
\* a key that is not in the dict
Absent == <<"<absent>">>
\* an event dict without the '#' key
NoRank == -1

\* the decimal digits, int(c) of a digit
DigitChars == <<"0","1","2","3","4","5","6","7","8","9">>
IsDigit(c) == \E n \in 1..10 : DigitChars[n] = c
DigitVal(c) == (CHOOSE n \in 1..10 : DigitChars[n] = c) - 1

\* f"{v}" for a value that is a str or None
Format(v) == IF v = Null THEN <<"N","o","n","e">> ELSE v

\* ord(c) for the characters that occur in the date strings of the model
ord(c) ==
  CASE c = " " -> 32
    [] c = "-" -> 45
    [] c = "0" -> 48
    [] c = "1" -> 49
    [] c = "2" -> 50
    [] c = "3" -> 51
    [] c = "4" -> 52
    [] c = "5" -> 53
    [] c = "6" -> 54
    [] c = "7" -> 55
    [] c = "8" -> 56
    [] c = "9" -> 57

\* a < b for two str: the first differing code point decides, a proper
\* prefix is smaller
StrLess(a, b) ==
  LET n == IF Len(a) < Len(b) THEN Len(a) ELSE Len(b)
      D == {k \in 1..n : a[k] # b[k]}
  IN  IF D = {} THEN Len(a) < Len(b)
      ELSE LET k == CHOOSE m \in D : \A m2 \in D : m <= m2
           IN  ord(a[k]) < ord(b[k])

(***************************************************************************)
(* The curated list built by crawl_major_ai_events.                        *)
(***************************************************************************)
major_events ==
  <<
     [name  |-> <<"N","e","u","r","I","P","S"," ","2","0","2","5">>,
      date  |-> <<"2","0","2","5","-","1","2","-","0","8">>,
      venue |-> <<"V","a","n","c","o","u","v","e","r",","," ","C","a","n","a","d","a">>,
      theme |-> "Neural Information Processing Systems",
      rank  |-> NoRank],
     [name  |-> <<"I","C","M","L"," ","2","0","2","5">>,
      date  |-> <<"2","0","2","5","-","0","7","-","1","5">>,
      venue |-> <<"V","a","n","c","o","u","v","e","r",","," ","C","a","n","a","d","a">>,
      theme |-> "International Conference on Machine Learning",
      rank  |-> NoRank],
     [name  |-> <<"C","V","P","R"," ","2","0","2","6">>,
      date  |-> <<"2","0","2","6","-","0","6","-","1","9">>,
      venue |-> <<"N","a","s","h","v","i","l","l","e",","," ","U","S","A">>,
      theme |-> "Computer Vision and Pattern Recognition",
      rank  |-> NoRank],
     [name  |-> <<"I","C","L","R"," ","2","0","2","6">>,
      date  |-> <<"2","0","2","6","-","0","4","-","2","4">>,
      venue |-> <<"S","i","n","g","a","p","o","r","e">>,
      theme |-> "International Conference on Learning Representations",
      rank  |-> NoRank],
     [name  |-> <<"A","C","L"," ","2","0","2","6">>,
      date  |-> <<"2","0","2","6","-","0","8","-","0","3">>,
      venue |-> <<"B","a","n","g","k","o","k",","," ","T","h","a","i","l","a","n","d">>,
      theme |-> "Association for Computational Linguistics",
      rank  |-> NoRank],
     [name  |-> <<"A","A","A","I"," ","2","0","2","6">>,
      date  |-> <<"2","0","2","6","-","0","2","-","0","9">>,
      venue |-> <<"P","h","i","l","a","d","e","l","p","h","i","a",","," ","U","S","A">>,
      theme |-> "Association for the Advancement of Artificial Intelligence",
      rank  |-> NoRank],
     [name  |-> <<"A","I"," ","S","u","m","m","i","t"," ","N","e","w"," ","Y","o","r","k"," ","2","0","2","5">>,
      date  |-> <<"2","0","2","5","-","1","2","-","1","0">>,
      venue |-> <<"N","e","w"," ","Y","o","r","k",","," ","U","S","A">>,
      theme |-> "Enterprise AI and Business Innovation",
      rank  |-> NoRank],
     [name  |-> <<"A","I"," ","S","u","m","m","i","t"," ","L","o","n","d","o","n"," ","2","0","2","6">>,
      date  |-> <<"2","0","2","6","-","0","6","-","1","0">>,
      venue |-> <<"L","o","n","d","o","n",","," ","U","K">>,
      theme |-> "AI for Business Transformation",
      rank  |-> NoRank],
     [name  |-> <<"R","E","U+2022","W","O","R","K"," ","D","e","e","p"," ","L","e","a","r","n","i","n","g"," ","S","u","m","m","i","t"," ","2","0","2","6">>,
      date  |-> <<"2","0","2","6","-","0","1","-","2","9">>,
      venue |-> <<"S","a","n"," ","F","r","a","n","c","i","s","c","o",","," ","U","S","A">>,
      theme |-> "Deep Learning Applications and Research",
      rank  |-> NoRank],
     [name  |-> <<"M","L","O","p","s"," ","W","o","r","l","d"," ","2","0","2","6">>,
      date  |-> <<"2","0","2","6","-","0","6","-","0","3">>,
      venue |-> <<"A","u","s","t","i","n",","," ","U","S","A">>,
      theme |-> "Machine Learning Operations and Production ML",
      rank  |-> NoRank],
     [name  |-> <<"G","e","n","e","r","a","t","i","v","e"," ","A","I"," ","W","o","r","l","d"," ","2","0","2","6">>,
      date  |-> <<"2","0","2","6","-","0","3","-","1","8">>,
      venue |-> <<"L","a","s"," ","V","e","g","a","s",","," ","U","S","A">>,
      theme |-> "Generative AI and Large Language Models",
      rank  |-> NoRank],
     [name  |-> <<"A","I"," ","i","n"," ","H","e","a","l","t","h","c","a","r","e"," ","S","u","m","m","i","t"," ","2","0","2","6">>,
      date  |-> <<"2","0","2","6","-","0","5","-","1","2">>,
      venue |-> <<"B","o","s","t","o","n",","," ","U","S","A">>,
      theme |-> "AI Applications in Healthcare and Medicine",
      rank  |-> NoRank],
     [name  |-> <<"P","y","T","o","r","c","h"," ","C","o","n","f","e","r","e","n","c","e"," ","2","0","2","6">>,
      date  |-> <<"2","0","2","6","-","1","0","-","0","7">>,
      venue |-> <<"S","a","n"," ","F","r","a","n","c","i","s","c","o",","," ","U","S","A">>,
      theme |-> "PyTorch and Deep Learning Frameworks",
      rank  |-> NoRank],
     [name  |-> <<"T","e","n","s","o","r","F","l","o","w"," ","D","e","v"," ","S","u","m","m","i","t"," ","2","0","2","6">>,
      date  |-> <<"2","0","2","6","-","0","3","-","2","5">>,
      venue |-> <<"V","i","r","t","u","a","l">>,
      theme |-> "TensorFlow and ML Development",
      rank  |-> NoRank],
     [name  |-> <<"A","I"," ","I","n","d","i","a"," ","S","u","m","m","i","t"," ","2","0","2","6">>,
      date  |-> <<"2","0","2","6","-","0","2","-","2","5">>,
      venue |-> <<"B","a","n","g","a","l","o","r","e",","," ","I","n","d","i","a">>,
      theme |-> "AI Innovation in India and South Asia",
      rank  |-> NoRank],
     [name  |-> <<"A","I"," ","C","h","i","n","a"," ","C","o","n","f","e","r","e","n","c","e"," ","2","0","2","6">>,
      date  |-> <<"2","0","2","6","-","0","7","-","2","2">>,
      venue |-> <<"B","e","i","j","i","n","g",","," ","C","h","i","n","a">>,
      theme |-> "AI Research and Industry in China",
      rank  |-> NoRank],
     [name  |-> <<"A","I"," ","A","f","r","i","c","a"," ","S","u","m","m","i","t"," ","2","0","2","6">>,
      date  |-> <<"2","0","2","6","-","0","9","-","1","6">>,
      venue |-> <<"C","a","p","e"," ","T","o","w","n",","," ","S","o","u","t","h"," ","A","f","r","i","c","a">>,
      theme |-> "AI for African Development and Innovation",
      rank  |-> NoRank],
     [name  |-> <<"A","I"," ","L","A","T","A","M"," ","2","0","2","6">>,
      date  |-> <<"2","0","2","6","-","1","1","-","1","1">>,
      venue |-> <<"S","U+00E3","o"," ","P","a","u","l","o",","," ","B","r","a","z","i","l">>,
      theme |-> "AI in Latin America",
      rank  |-> NoRank],
     [name  |-> <<"E","m","T","e","c","h"," ","D","i","g","i","t","a","l"," ","2","0","2","6">>,
      date  |-> <<"2","0","2","6","-","0","5","-","2","0">>,
      venue |-> <<"S","a","n"," ","F","r","a","n","c","i","s","c","o",","," ","U","S","A">>,
      theme |-> "Emerging Technologies and Digital Transformation",
      rank  |-> NoRank],
     [name  |-> <<"A","I"," ","f","o","r"," ","G","o","o","d"," ","G","l","o","b","a","l"," ","S","u","m","m","i","t"," ","2","0","2","6">>,
      date  |-> <<"2","0","2","6","-","0","6","-","2","9">>,
      venue |-> <<"G","e","n","e","v","a",","," ","S","w","i","t","z","e","r","l","a","n","d">>,
      theme |-> "AI for Sustainable Development Goals",
      rank  |-> NoRank],
     [name  |-> <<"F","A","c","c","T"," ","2","0","2","6">>,
      date  |-> <<"2","0","2","6","-","0","6","-","2","4">>,
      venue |-> <<"B","a","r","c","e","l","o","n","a",","," ","S","p","a","i","n">>,
      theme |-> "Fairness, Accountability, and Transparency in AI",
      rank  |-> NoRank],
     [name  |-> <<"W","o","r","l","d"," ","S","u","m","m","i","t"," ","A","I"," ","2","0","2","5">>,
      date  |-> <<"2","0","2","5","-","1","0","-","0","9">>,
      venue |-> <<"D","o","h","a",","," ","Q","a","t","a","r">>,
      theme |-> "Global AI Innovation and Business Applications",
      rank  |-> NoRank],
     [name  |-> <<"E","M","N","L","P"," ","2","0","2","5">>,
      date  |-> <<"2","0","2","5","-","1","1","-","1","1">>,
      venue |-> <<"M","i","a","m","i",","," ","U","S","A">>,
      theme |-> "Empirical Methods in Natural Language Processing",
      rank  |-> NoRank],
     [name  |-> <<"A","I","S","T","A","T","S"," ","2","0","2","6">>,
      date  |-> <<"2","0","2","6","-","0","5","-","0","4">>,
      venue |-> <<"V","a","l","e","n","c","i","a",","," ","S","p","a","i","n">>,
      theme |-> "Artificial Intelligence and Statistics",
      rank  |-> NoRank],
     [name  |-> <<"A","I"," ","W","o","r","l","d"," ","G","o","v","e","r","n","m","e","n","t"," ","S","u","m","m","i","t"," ","2","0","2","6">>,
      date  |-> <<"2","0","2","6","-","0","2","-","1","1">>,
      venue |-> <<"D","u","b","a","i",","," ","U","A","E">>,
      theme |-> "AI in Government and Public Policy",
      rank  |-> NoRank],
     [name  |-> <<"K","D","D"," ","2","0","2","6">>,
      date  |-> <<"2","0","2","6","-","0","8","-","2","3">>,
      venue |-> <<"C","h","i","c","a","g","o",","," ","U","S","A">>,
      theme |-> "Knowledge Discovery and Data Mining",
      rank  |-> NoRank],
     [name  |-> <<"I","J","C","A","I"," ","2","0","2","6">>,
      date  |-> <<"2","0","2","6","-","0","8","-","2","9">>,
      venue |-> <<"M","o","n","t","r","e","a","l",","," ","C","a","n","a","d","a">>,
      theme |-> "International Joint Conference on Artificial Intelligence",
      rank  |-> NoRank],
     [name  |-> <<"A","I"," ","&"," ","B","i","g"," ","D","a","t","a"," ","E","x","p","o"," ","2","0","2","6">>,
      date  |-> <<"2","0","2","6","-","0","3","-","1","1">>,
      venue |-> <<"A","m","s","t","e","r","d","a","m",","," ","N","e","t","h","e","r","l","a","n","d","s">>,
      theme |-> "AI and Big Data for Enterprise",
      rank  |-> NoRank],
     [name  |-> <<"E","C","C","V"," ","2","0","2","6">>,
      date  |-> <<"2","0","2","6","-","1","0","-","1","1">>,
      venue |-> <<"M","i","l","a","n",","," ","I","t","a","l","y">>,
      theme |-> "European Conference on Computer Vision",
      rank  |-> NoRank],
     [name  |-> <<"A","I"," ","H","a","r","d","w","a","r","e"," ","S","u","m","m","i","t"," ","2","0","2","6">>,
      date  |-> <<"2","0","2","6","-","0","9","-","0","8">>,
      venue |-> <<"S","a","n","t","a"," ","C","l","a","r","a",","," ","U","S","A">>,
      theme |-> "AI Chips, Accelerators, and Hardware Innovation",
      rank  |-> NoRank]
  >>

(***************************************************************************)
(* Identity and merge.                                                     *)
(***************************************************************************)
\* event['name'], event['date'], event['venue'] do not raise KeyError
HasKeys(event) ==
  event.name # Absent /\ event.date # Absent /\ event.venue # Absent

\* variant: the id is taken over the whole record, '#' included
generate_event_id_WithRank(event) ==
  Format(event.name) \o <<"_">> \o Format(event.date) \o <<"_">>
    \o Format(event.venue) \o <<"_", ToString(event.rank)>>

\* the key string of generate_event_id (md5 of it is the id)
generate_event_id(event) ==
  Format(event.name) \o <<"_">> \o Format(event.date) \o <<"_">>
    \o Format(event.venue)

\* generate_event_id raises KeyError for the candidate or for a stored event
event_exists_raises(event, evs) ==
  ~HasKeys(event) \/ \E k \in 1..Len(evs) : ~HasKeys(evs[k])

\* variant: the id is looked up among the stored names
event_exists_ByName(event, evs) ==
  LET event_id == generate_event_id(event)
      existing_names == [k \in 1..Len(evs) |-> Format(evs[k].name)]
  IN  \E k \in 1..Len(evs) : existing_names[k] = event_id

event_exists(event, evs) ==
  LET event_id == generate_event_id(event)
      existing_ids == [k \in 1..Len(evs) |-> generate_event_id(evs[k])]
  IN  \E k \in 1..Len(evs) : existing_ids[k] = event_id

\* variant: the new event is put at the front of the catalog
add_event_Prepend(event, evs) ==
  IF event_exists_raises(event, evs)
    THEN [events |-> evs, ret |-> "KeyError"]
    ELSE IF ~event_exists(event, evs)
           THEN [events |-> <<event>> \o evs, ret |-> "True"]
           ELSE [events |-> evs, ret |-> "False"]

\* variant: a duplicate overwrites the stored record
add_event_Upsert(event, evs) ==
  IF event_exists_raises(event, evs)
    THEN [events |-> evs, ret |-> "KeyError"]
    ELSE IF ~event_exists(event, evs)
           THEN [events |-> Append(evs, event), ret |-> "True"]
           ELSE [events |->
                   [k \in 1..Len(evs) |->
                      IF generate_event_id(evs[k]) = generate_event_id(event)
                        THEN event ELSE evs[k]],
                 ret |-> "False"]

\* add_event on the catalog evs: the catalog after the call and the outcome
add_event(event, evs) ==
  IF event_exists_raises(event, evs)
    THEN [events |-> evs, ret |-> "KeyError"]
    ELSE IF ~event_exists(event, evs)
           THEN [events |-> Append(evs, event), ret |-> "True"]
           ELSE [events |-> evs, ret |-> "False"]

(***************************************************************************)
(* Sort and numbering of run().                                            *)
(***************************************************************************)
\* self.events.sort(key=lambda x: x['date']) raises: KeyError when a date is
\* missing, TypeError when a None takes part in a comparison
sort_raises(evs) ==
  \/ \E k \in 1..Len(evs) : evs[k].date = Absent
  \/ Len(evs) >= 2 /\ \E k \in 1..Len(evs) : evs[k].date = Null

\* variant: the sorted list is computed and dropped (sorted(...) unassigned)
sort_by_date_Dropped(evs) == evs

\* variant: an element goes in front of the elements with an equal key
RECURSIVE sort_by_date_Unstable(_)
sort_by_date_Unstable(evs) ==
  IF evs = <<>> THEN <<>>
  ELSE LET s == sort_by_date_Unstable(SubSeq(evs, 1, Len(evs) - 1))
           e == evs[Len(evs)]
           later == {q \in 1..Len(s) : ~StrLess(s[q].date, e.date)}
           p == IF later = {} THEN Len(s) + 1
                ELSE CHOOSE q \in later : \A q2 \in later : q <= q2
       IN  SubSeq(s, 1, p - 1) \o <<e>> \o SubSeq(s, p, Len(s))

\* list.sort is stable: an element goes behind every element whose key is
\* not greater than its own
RECURSIVE sort_by_date(_)
sort_by_date(evs) ==
  IF evs = <<>> THEN <<>>
  ELSE LET s == sort_by_date(SubSeq(evs, 1, Len(evs) - 1))
           e == evs[Len(evs)]
           later == {q \in 1..Len(s) : StrLess(e.date, s[q].date)}
           p == IF later = {} THEN Len(s) + 1
                ELSE CHOOSE q \in later : \A q2 \in later : q <= q2
       IN  SubSeq(s, 1, p - 1) \o <<e>> \o SubSeq(s, p, Len(s))

\* variant: enumerate without the start value
number_events_ZeroBased(evs) ==
  [k \in 1..Len(evs) |-> [evs[k] EXCEPT !.rank = k - 1]]

\* for idx, event in enumerate(self.events, 1): event['#'] = idx
number_events(evs) == [k \in 1..Len(evs) |-> [evs[k] EXCEPT !.rank = k]]

(***************************************************************************)
(* The catalog file.  kind "missing": os.path.exists is False; "json": a   *)
(* JSON array of event objects; "text": UTF-8 text that is not JSON (the   *)
(* empty file included); "bytes": content that is not UTF-8.               *)
(***************************************************************************)
File(kind, data) == [kind |-> kind, data |-> data]

(***************************************************************************)
(* JSON.  The array and its objects are kept as a sequence of records (the *)
(* brackets, commas and the indent=2 layout are not modelled); every value *)
(* is kept as the literal json.dump writes for it.  A key that the dict    *)
(* does not have is not written.                                           *)
(***************************************************************************)
\* variant: the text is written between the quotes as it is
escape_Raw(str) == str

\* the body of a string literal with ensure_ascii=False: '"' and '\' get a
\* backslash, every other character (non-ASCII too) is written as it is
RECURSIVE escape(_)
escape(str) ==
  IF \A k \in 1..Len(str) : str[k] \notin {"\"", "\\"} THEN str
  ELSE IF Head(str) \in {"\"", "\\"}
         THEN <<"\\", Head(str)>> \o escape(Tail(str))
         ELSE <<Head(str)>> \o escape(Tail(str))

\* the scanner of json.load on the body of a string literal
RECURSIVE unescape(_)
unescape(str) ==
  IF \A k \in 1..Len(str) : str[k] # "\\" THEN str
  ELSE IF Head(str) = "\\"
         THEN <<str[2]>> \o unescape(SubSeq(str, 3, Len(str)))
         ELSE <<Head(str)>> \o unescape(Tail(str))

\* str(n) for an int n >= 0
RECURSIVE decimal(_)
decimal(n) ==
  IF n < 10 THEN <<DigitChars[n + 1]>>
  ELSE decimal(n \div 10) \o <<DigitChars[(n % 10) + 1]>>

\* int(lit) for a literal of digits
RECURSIVE parse_int(_)
parse_int(lit) ==
  IF Len(lit) = 1 THEN DigitVal(lit[1])
  ELSE parse_int(SubSeq(lit, 1, Len(lit) - 1)) * 10 + DigitVal(lit[Len(lit)])

\* the literal written for a value that is a str or None
json_encode(v) ==
  IF v = Absent THEN Absent
  ELSE IF v = Null THEN <<"n","u","l","l">>
  ELSE <<"\"">> \o escape(v) \o <<"\"">>

\* the value read from a literal
json_decode(lit) ==
  IF lit = Absent THEN Absent
  ELSE IF lit = <<"n","u","l","l">> THEN Null
  ELSE unescape(SubSeq(lit, 2, Len(lit) - 1))

encode_event(event) ==
  [name  |-> json_encode(event.name),
   date  |-> json_encode(event.date),
   venue |-> json_encode(event.venue),
   theme |-> json_encode(<<event.theme>>),
   rank  |-> IF event.rank = NoRank THEN Absent ELSE decimal(event.rank)]

decode_event(obj) ==
  [name  |-> json_decode(obj.name),
   date  |-> json_decode(obj.date),
   venue |-> json_decode(obj.venue),
   theme |-> json_decode(obj.theme)[1],
   rank  |-> IF obj.rank = Absent THEN NoRank ELSE parse_int(obj.rank)]

\* json.dump(self.events, f, indent=2, ensure_ascii=False)
json_dump(evs) == File("json", [k \in 1..Len(evs) |-> encode_event(evs[k])])

\* json.load(f) on a file of kind "json"
json_load(file) == [k \in 1..Len(file.data) |-> decode_event(file.data[k])]

\* variant: the catalog read is thrown away
load_existing_data_Fresh(file) ==
  IF file.kind = "bytes" THEN [events |-> <<>>, raises |-> TRUE]
  ELSE [events |-> <<>>, raises |-> FALSE]

\* load_existing_data: self.events afterwards, and whether it raised
load_existing_data(file) ==
  IF file.kind = "missing" THEN [events |-> <<>>, raises |-> FALSE]
  ELSE IF file.kind = "json" THEN [events |-> json_load(file), raises |-> FALSE]
  ELSE IF file.kind = "text" THEN [events |-> <<>>, raises |-> FALSE]
  ELSE [events |-> <<>>, raises |-> TRUE]

\* os.path.dirname(self.data_file)
dirname(path) == SubSeq(path, 1, Len(path) - 1)

\* os.makedirs(name, exist_ok=True) raises FileNotFoundError for ''
makedirs_raises(name) == name = <<>>

(***************************************************************************)
(* Inputs: the events offered to add_event by a caller, the catalog files  *)
(* found at start, the configured paths.                                   *)
(***************************************************************************)
Ev(n, d, v, t, r) == [name |-> n, date |-> d, venue |-> v, theme |-> t, rank |-> r]

\* the spec's example: the curated ICML 2025 in other case and spacing
IcmlVariant ==
  Ev(<<" ","i","c","m","l"," ","2","0","2","5"," ">>, <<"2","0","2","5","-","0","7","-","1","5">>,
     <<" "," ","V","a","n","c","o","u","v","e","r",","," ","C","a","n","a","d","a"," "," ">>, "scraped", NoRank)
\* same name, date and venue as the curated NeurIPS 2025, other payload
NeuripsOther ==
  Ev(<<"N","e","u","r","I","P","S"," ","2","0","2","5">>, <<"2","0","2","5","-","1","2","-","0","8">>,
     <<"V","a","n","c","o","u","v","e","r",","," ","C","a","n","a","d","a">>, "other", NoRank)
\* a new event on the date of the curated AAAI 2026
NewX == Ev(<<"X">>, <<"2","0","2","6","-","0","2","-","0","9">>, <<"V">>, "x", NoRank)
\* a date that is not zero padded
NonCanonical == Ev(<<"Y">>, <<"2","0","2","6","-","2","-","9">>, <<"V">>, "y", NoRank)
\* "date": None
NullDate == Ev(<<"Z">>, Null, <<"V">>, "z", NoRank)
\* no "date" key
NoDate == Ev(<<"Z">>, Absent, <<"V">>, "z", NoRank)

\* "venue": None
NullVenue == Ev(<<"W">>, <<"2","0","2","6","-","0","1","-","0","5">>, Null, "w", NoRank)
\* a name with a double quote and a backslash
Quoted == Ev(<<"Q","\"","\\","q">>, <<"2","0","2","6","-","0","1","-","0","5">>, <<"V">>, "q", NoRank)

\* two events with different name, date and venue whose fields hold '_':
\* both give the key "U_2026-01-05_X_2026-01-06_V"
SepInVenue ==
  Ev(<<"U">>, <<"2","0","2","6","-","0","1","-","0","5">>,
     <<"X","_","2","0","2","6","-","0","1","-","0","6","_","V">>, "u1", NoRank)
SepInName ==
  Ev(<<"U","_","2","0","2","6","-","0","1","-","0","5","_","X">>,
     <<"2","0","2","6","-","0","1","-","0","6">>, <<"V">>, "u2", NoRank)

Candidates ==
  {IcmlVariant, NeuripsOther, NewX, NonCanonical, NullDate, NoDate,
   NullVenue, Quoted, SepInName}

\* a '#' left in the file by an earlier writer
StaleRank == Len(major_events) + 7
FileEvents ==
  {[NewX EXCEPT !.rank = StaleRank], NullDate, NoDate}

RECURSIVE SeqsUpTo(_, _)
SeqsUpTo(S, n) ==
  IF n = 0 THEN {<<>>}
  ELSE LET T == SeqsUpTo(S, n - 1)
       IN  T \cup {Append(t, x) : t \in {u \in T : Len(u) = n - 1}, x \in S}

InitFiles ==
  {File("missing", <<>>), File("text", <<>>), File("bytes", <<>>)}
    \cup {json_dump(s) : s \in SeqsUpTo(FileEvents, MaxFileLen)}
    \cup {json_dump(<<SepInVenue>>)}

\* "docs/events_data.json" (the default) and a path without directory
Paths == {<<"docs", "events_data.json">>, <<"events_data.json">>}

NoCall == Ev(Absent, Absent, Absent, "", NoRank)

(***************************************************************************)
(* The state machine.                                                      *)
(***************************************************************************)
Init ==
  /\ disk \in InitFiles
  /\ disk0 = disk
  /\ data_file \in Paths
  /\ pc = "none"
  /\ events = <<>>
  /\ idx = 0
  /\ new_events_added = 0
  /\ lenAtRun = 0
  /\ skipped = 0
  /\ arg = NoCall
  /\ ret = "none"
  /\ prev = <<>>
  /\ post = <<>>
  /\ added = <<>>
  /\ loaded = <<>>
  /\ fromRun = FALSE
  /\ diskAtStart = disk
  /\ written = FALSE
  /\ touched = FALSE
  /\ failedAt = "none"
  /\ runs = 0
  /\ nadds = 0

\* crawler = AIEventsCrawler(data_file): __init__ and load_existing_data
Construct ==
  /\ pc = "none"
  /\ LET r == load_existing_data(disk)
     IN  /\ events' = r.events
         /\ loaded' = r.events
         /\ pc' = IF r.raises THEN "failed" ELSE "ready"
         /\ failedAt' = IF r.raises THEN "load" ELSE "none"
  /\ fromRun' = written
  /\ diskAtStart' = disk
  /\ UNCHANGED <<disk, disk0, data_file, idx, new_events_added, lenAtRun, skipped, arg, ret, prev, post,
                 added, written, touched, runs, nadds>>

\* variant: duplicates are looked up in the catalog as it was loaded
Call_Blind(event) ==
  LET r == add_event(event, loaded)
  IN  /\ events' = IF r.ret = "True" THEN Append(events, event) ELSE events
      /\ arg' = event
      /\ ret' = r.ret
      /\ prev' = events
      /\ post' = events'
      /\ added' = IF r.ret = "True" THEN Append(added, event) ELSE added

\* the bookkeeping of one add_event(event) call
Call(event) ==
  LET r == add_event(event, events)
  IN  /\ events' = r.events
      /\ arg' = event
      /\ ret' = r.ret
      /\ prev' = events
      /\ post' = r.events
      /\ added' = IF r.ret = "True" THEN Append(added, event) ELSE added

\* a caller's crawler.add_event(event), before or after run()
AddEvent(event) ==
  /\ pc \in {"ready", "done"}
  /\ nadds < MaxAdds
  /\ Call(event)
  /\ IF ret' = "KeyError"
       THEN pc' = "failed" /\ failedAt' = "add_event"
       ELSE UNCHANGED <<pc, failedAt>>
  /\ touched' = TRUE
  /\ nadds' = nadds + 1
  /\ UNCHANGED <<disk, disk0, data_file, idx, new_events_added, lenAtRun, skipped, loaded, fromRun,
                 diskAtStart, written, runs>>

\* run() up to the start of the loop of crawl_major_ai_events
RunStart ==
  /\ pc \in {"ready", "done"}
  /\ runs < MaxRuns
  /\ pc' = "crawl"
  /\ idx' = 1
  /\ new_events_added' = 0
  /\ lenAtRun' = Len(events)
  /\ skipped' = 0
  /\ runs' = runs + 1
  /\ diskAtStart' = disk
  /\ UNCHANGED <<disk, disk0, data_file, events, arg, ret, prev, post, added,
                 loaded,
                 fromRun, written, touched, failedAt, nadds>>

\* variant: the counter is incremented for every candidate
CrawlStep_CountAll ==
  /\ pc = "crawl"
  /\ Call(major_events[idx])
  /\ new_events_added' = IF ret' = "KeyError" THEN new_events_added
                         ELSE new_events_added + 1
  /\ skipped' = IF ret' = "False" THEN skipped + 1 ELSE skipped
  /\ lenAtRun' = lenAtRun
  /\ IF ret' = "KeyError"
       THEN pc' = "failed" /\ failedAt' = "crawl" /\ idx' = idx
       ELSE /\ pc' = IF idx = Len(major_events) THEN "sort" ELSE "crawl"
            /\ idx' = idx + 1
            /\ failedAt' = failedAt
  /\ UNCHANGED <<disk, disk0, data_file, loaded, fromRun, diskAtStart, written,
                 touched, runs, nadds>>

\* variant: the loop stops one candidate early
CrawlStep_EarlyExit ==
  /\ pc = "crawl"
  /\ Call(major_events[idx])
  /\ new_events_added' = IF ret' = "True" THEN new_events_added + 1
                         ELSE new_events_added
  /\ skipped' = IF ret' = "False" THEN skipped + 1 ELSE skipped
  /\ lenAtRun' = lenAtRun
  /\ IF ret' = "KeyError"
       THEN pc' = "failed" /\ failedAt' = "crawl" /\ idx' = idx
       ELSE /\ pc' = IF idx = Len(major_events) - 1 THEN "sort" ELSE "crawl"
            /\ idx' = idx + 1
            /\ failedAt' = failedAt
  /\ UNCHANGED <<disk, disk0, data_file, loaded, fromRun, diskAtStart, written,
                 touched, runs, nadds>>

\* one iteration of: for event in major_events: if self.add_event(event): ...
CrawlStep ==
  /\ pc = "crawl"
  /\ Call(major_events[idx])
  /\ new_events_added' = IF ret' = "True" THEN new_events_added + 1
                         ELSE new_events_added
  /\ skipped' = IF ret' = "False" THEN skipped + 1 ELSE skipped
  /\ lenAtRun' = lenAtRun
  /\ IF ret' = "KeyError"
       THEN pc' = "failed" /\ failedAt' = "crawl" /\ idx' = idx
       ELSE /\ pc' = IF idx = Len(major_events) THEN "sort" ELSE "crawl"
            /\ idx' = idx + 1
            /\ failedAt' = failedAt
  /\ UNCHANGED <<disk, disk0, data_file, loaded, fromRun, diskAtStart, written,
                 touched, runs, nadds>>

\* variant: the merged catalog is saved before it is sorted
SortStep_SaveFirst ==
  /\ pc = "sort"
  /\ disk' = IF makedirs_raises(dirname(data_file)) THEN disk
             ELSE json_dump(events)
  /\ IF sort_raises(events)
       THEN pc' = "failed" /\ failedAt' = "sort" /\ events' = events
       ELSE pc' = "rank" /\ failedAt' = failedAt
            /\ events' = sort_by_date(events)
  /\ UNCHANGED <<disk0, data_file, idx, new_events_added, lenAtRun, skipped, arg, ret, prev, post,
                 added, loaded, fromRun, diskAtStart, written, touched, runs,
                 nadds>>

\* self.events.sort(key=lambda x: x['date'])
SortStep ==
  /\ pc = "sort"
  /\ IF sort_raises(events)
       THEN pc' = "failed" /\ failedAt' = "sort" /\ events' = events
       ELSE pc' = "rank" /\ failedAt' = failedAt
            /\ events' = sort_by_date(events)
  /\ UNCHANGED <<disk, disk0, data_file, idx, new_events_added, lenAtRun, skipped, arg, ret, prev, post,
                 added, loaded, fromRun, diskAtStart, written, touched, runs,
                 nadds>>

\* the numbering loop of run()
RankStep ==
  /\ pc = "rank"
  /\ events' = number_events(events)
  /\ pc' = "save"
  /\ UNCHANGED <<disk, disk0, data_file, idx, new_events_added, lenAtRun, skipped, arg, ret, prev, post,
                 added, loaded, fromRun, diskAtStart, written, touched,
                 failedAt, runs, nadds>>

\* self.save_data() and the summary prints of run()
SaveStep ==
  /\ pc = "save"
  /\ IF makedirs_raises(dirname(data_file))
       THEN pc' = "failed" /\ failedAt' = "save" /\ UNCHANGED <<disk, written>>
       ELSE pc' = "done" /\ failedAt' = failedAt
            /\ disk' = json_dump(events) /\ written' = TRUE
  /\ UNCHANGED <<disk0, data_file, events, idx, new_events_added, lenAtRun, skipped, arg, ret, prev, post,
                 added, loaded, fromRun, diskAtStart, touched, runs, nadds>>

\* the process ends (normally or by the uncaught exception)
Exit ==
  /\ pc \in {"ready", "done", "failed"}
  /\ pc' = "none"
  /\ events' = <<>>
  /\ idx' = 0
  /\ new_events_added' = 0
  /\ lenAtRun' = 0
  /\ skipped' = 0
  /\ arg' = NoCall
  /\ ret' = "none"
  /\ prev' = <<>>
  /\ post' = <<>>
  /\ added' = <<>>
  /\ loaded' = <<>>
  /\ fromRun' = FALSE
  /\ diskAtStart' = disk
  /\ touched' = FALSE
  /\ failedAt' = "none"
  /\ UNCHANGED <<disk, disk0, data_file, written, runs, nadds>>

Next ==
  \/ Construct
  \/ \E event \in Candidates : AddEvent(event)
  \/ RunStart
  \/ CrawlStep
  \/ SortStep
  \/ RankStep
  \/ SaveStep
  \/ Exit

Spec == Init /\ [][Next]_vars

(***************************************************************************)
(* Vocabulary of the properties.                                           *)
(***************************************************************************)
\* the catalog held by a file of kind "json"
Stored(file) == json_load(file)

Ids(evs) == {generate_event_id(evs[k]) : k \in 1..Len(evs)}

\* no two entries have the same id
NoDuplicateIds(evs) == Cardinality(Ids(evs)) = Len(evs)

\* the catalog file before the first process held no event
StartedEmpty ==
  disk0.kind \in {"missing", "text"} \/ (disk0.kind = "json" /\ disk0.data = <<>>)

\* the events appended since construction, before the last add_event call
AddedBefore ==
  IF ret = "True" THEN SubSeq(added, 1, Len(added) - 1) ELSE added

\* the last add_event call returned (did not raise)
Returned == ret \in {"True", "False"}

UpperCase == <<"A","B","C","D","E","F","G","H","I","J","K","L","M",
               "N","O","P","Q","R","S","T","U","V","W","X","Y","Z">>
LowerCase == <<"a","b","c","d","e","f","g","h","i","j","k","l","m",
               "n","o","p","q","r","s","t","u","v","w","x","y","z">>
CaseFold(str) ==
  [k \in 1..Len(str) |->
     IF \E m \in 1..26 : UpperCase[m] = str[k]
       THEN LowerCase[CHOOSE m \in 1..26 : UpperCase[m] = str[k]]
       ELSE str[k]]
Trim(str) ==
  LET inked == {k \in 1..Len(str) : str[k] # " "}
  IN  IF inked = {} THEN <<>>
      ELSE SubSeq(str, CHOOSE k \in inked : \A m \in inked : k <= m,
                       CHOOSE k \in inked : \A m \in inked : m <= k)
Normal(str) == CaseFold(Trim(str))

IsText(v) == v # Null /\ v # Absent

\* same date, name and venue equal up to letter case and outer whitespace
SameUpToCaseAndSpace(e, f) ==
  /\ IsText(e.name) /\ IsText(e.venue) /\ IsText(f.name) /\ IsText(f.venue)
  /\ e.date = f.date
  /\ Normal(e.name) = Normal(f.name)
  /\ Normal(e.venue) = Normal(f.venue)

\* YYYY-MM-DD
IsCanonical(d) ==
  /\ Len(d) = 10
  /\ d[5] = "-" /\ d[8] = "-"
  /\ \A k \in {1, 2, 3, 4, 6, 7, 9, 10} : IsDigit(d[k])

\* the calendar day of a canonical date, as the number YYYYMMDD
Calendar(d) ==
  LET n(k) == DigitVal(d[k])
  IN  (n(1) * 1000 + n(2) * 100 + n(3) * 10 + n(4)) * 10000
        + (n(6) * 10 + n(7)) * 100 + n(9) * 10 + n(10)

AllCanonical(evs) == \A k \in 1..Len(evs) : IsCanonical(evs[k].date)

\* same fields, '#' aside
SameButRank(e, f) == [e EXCEPT !.rank = NoRank] = [f EXCEPT !.rank = NoRank]

\* every event of evs is in cat, '#' aside
AllKept(evs, cat) ==
  LET stripped == {[cat[m] EXCEPT !.rank = NoRank] : m \in 1..Len(cat)}
  IN  \A k \in 1..Len(evs) : [evs[k] EXCEPT !.rank = NoRank] \in stripped

\* adjacent entries of a catalog of canonical dates are in calendar order
InCalendarOrder(cat) ==
  LET day == [k \in 1..Len(cat) |-> Calendar(cat[k].date)]
  IN  \A k \in 1..(Len(cat) - 1) : day[k] <= day[k + 1]

\* the '#' of the entry at position i is i
DenselyRanked(cat) == \A k \in 1..Len(cat) : cat[k].rank = k

(***************************************************************************)
(* C1 - No duplicate fingerprints: starting from a missing or empty        *)
(* catalog file, after any runs and add_event calls no two entries of the  *)
(* in-memory catalog, nor of a catalog written by save_data, have the same *)
(* generate_event_id.                                                      *)
(***************************************************************************)
C1_NoDuplicateFingerprints ==
  StartedEmpty =>
    /\ NoDuplicateIds(events)
    /\ pc = "done" => NoDuplicateIds(Stored(disk))

\* a written catalog to which a duplicate had been offered
C1_Witness ==
  /\ StartedEmpty /\ written /\ ret = "False"
  /\ Len(Stored(disk)) > Len(major_events)

(***************************************************************************)
(* C2 - Case/whitespace insensitivity of identity: when an event is        *)
(* offered to add_event after one with the same date whose name and venue  *)
(* differ from its own only in letter case or outer whitespace was added,  *)
(* the call reports not-added and the catalog keeps exactly the first.     *)
(***************************************************************************)
C2_CaseWhitespaceInsensitive ==
  (Returned /\ \E k \in 1..Len(AddedBefore) :
                 SameUpToCaseAndSpace(AddedBefore[k], arg))
    => ret = "False" /\ post = prev

C4_NoIntraRunBlindness ==
  /\ NoDuplicateIds(added)
  /\ (Returned /\ generate_event_id(arg) \in Ids(AddedBefore)) => ret = "False"

\* rejected because of an event added by this process, not because of the file
C4_Witness ==
  /\ ret = "False"
  /\ generate_event_id(arg) \in Ids(added)
  /\ generate_event_id(arg) \notin Ids(loaded)

(***************************************************************************)
(* C5 - Idempotence: a process that loads the file written by an earlier   *)
(* run and only runs (no add_event from outside) writes back the catalog   *)
(* it loaded - same fingerprints, same order, same ranks - and adds zero   *)
(* events.                                                                 *)
(***************************************************************************)
C5_Idempotence ==
  (pc = "done" /\ fromRun /\ ~touched) =>
    /\ disk = json_dump(loaded)
    /\ new_events_added = 0

\* the second run over a catalog that holds more than the curated list
C5_Witness ==
  /\ pc = "done" /\ fromRun /\ ~touched
  /\ Len(loaded) > Len(major_events)

(***************************************************************************)
(* C6 - Append-only catalog: in the catalog a run has written, every      *)
(* event loaded from the file is still present, and every fingerprint that *)
(* was in the file when the run started is still in the file.              *)
(***************************************************************************)
C6_AppendOnly ==
  pc = "done" =>
    /\ AllKept(loaded, Stored(disk))
    /\ diskAtStart.kind = "json" => Ids(Stored(diskAtStart)) \subseteq Ids(Stored(disk))

\* a hand-written catalog was loaded and the run wrote its result
C6_Witness ==
  /\ pc = "done" /\ written /\ ~fromRun /\ ~touched
  /\ Len(loaded) > 0
  /\ AllKept(loaded, Stored(disk))

(***************************************************************************)
(* C7 - Sort correctness: in every catalog written by run() whose dates    *)
(* are canonical YYYY-MM-DD strings, adjacent entries are in calendar      *)
(* order.  (The file changes only in the step that ends run(), C9, so the  *)
(* file is looked at in the states after that step.)                       *)
(***************************************************************************)
C7_SortCorrectness ==
  pc = "done" =>
    LET cat == Stored(disk)
    IN  AllCanonical(cat) => InCalendarOrder(cat)

\* a written canonical catalog that holds a caller's event besides the list
C7_Witness ==
  /\ written
  /\ LET cat == Stored(disk)
     IN  /\ AllCanonical(cat)
         /\ \E k \in 1..Len(cat) : cat[k].name = NewX.name

(***************************************************************************)
(* C8 - Dense ranking: in every catalog written by run() the '#' of the    *)
(* entry at position i is i, whatever '#' the loaded events carried.       *)
(***************************************************************************)
C8_DenseRanking ==
  pc = "done" => DenselyRanked(Stored(disk))

\* a written catalog one of whose loaded events carried a stale '#'
C8_Witness ==
  /\ written /\ pc = "done"
  /\ \E k \in 1..Len(loaded) :
       loaded[k].rank = StaleRank
         /\ AllKept(<<loaded[k]>>, Stored(disk))

(***************************************************************************)
(* C9 - No partial persistence: the file is written only by save_data at   *)
(* the end of run(); while a run is before its save, and after it failed   *)
(* in load, collect, merge, sort or rank, the file is what it was when the *)
(* run started.                                                            *)
(***************************************************************************)
C9_NoPartialPersistence ==
  (\/ pc \in {"crawl", "sort", "rank", "save"}
   \/ pc = "failed" /\ failedAt \in {"load", "crawl", "sort", "save"})
    => disk = diskAtStart

\* the run merged events in memory and then failed in the sort
C9_Witness ==
  /\ pc = "failed" /\ failedAt = "sort"
  /\ new_events_added > 0
  /\ disk = diskAtStart

(***************************************************************************)
(* C10 - Load never fails: load_existing_data yields an empty catalog for  *)
(* a missing file and for a corrupt or unparseable file, the stored        *)
(* sequence otherwise; in no file state does loading abort the process.    *)
(***************************************************************************)
C10_LoadNeverFails ==
  /\ failedAt # "load"
  /\ pc = "ready" =>
       loaded = IF diskAtStart.kind = "json" THEN Stored(diskAtStart) ELSE <<>>

(***************************************************************************)
(* Vocabulary of the further properties.                                   *)
(***************************************************************************)
CuratedIds == Ids(major_events)

\* no date: the key is missing or its value is None
Dateless(e) == e.date = Null \/ e.date = Absent

\* a text of digits and dashes
LooksLikeDate(d) ==
  /\ IsText(d) /\ Len(d) > 0
  /\ \A k \in 1..Len(d) : IsDigit(d[k]) \/ d[k] = "-"

\* adjacent entries are in the order of the sort key
SortedByKey(evs) ==
  \A k \in 1..(Len(evs) - 1) : ~StrLess(evs[k + 1].date, evs[k].date)

\* the events of a catalog that have the date d, in catalog order
OnDate(evs, d) == LET Same(e) == e.date = d IN SelectSeq(evs, Same)

\* the steps a process can take from one position to another
PhaseEdges ==
  {<<"none", "ready">>, <<"none", "failed">>,
   <<"ready", "crawl">>, <<"ready", "failed">>, <<"ready", "none">>,
   <<"crawl", "sort">>, <<"crawl", "failed">>,
   <<"sort", "rank">>, <<"sort", "failed">>,
   <<"rank", "save">>,
   <<"save", "done">>, <<"save", "failed">>,
   <<"done", "crawl">>, <<"done", "failed">>, <<"done", "none">>,
   <<"failed", "none">>}

(***************************************************************************)
(* C11 - Graceful degradation: with no scraped adapter contributing, a run *)
(* completes without raising and the written catalog holds every curated   *)
(* fingerprint, for every prior state of the catalog file.                 *)
(***************************************************************************)
C11_GracefulDegradation ==
  /\ failedAt \in {"none", "add_event"}
  /\ pc = "done" => CuratedIds \subseteq Ids(Stored(disk))

(***************************************************************************)
(* C12 - Round-trip: save_data followed by load_existing_data on the same  *)
(* path gives back the catalog that was saved: same events, same order,    *)
(* same field values.                                                      *)
(***************************************************************************)
C12_RoundTrip ==
  [][(pc = "save" /\ pc' = "done") =>
       load_existing_data(disk') = [events |-> events, raises |-> FALSE]]_vars

\* a saved catalog that holds a name with a double quote and a backslash
C12_Witness ==
  /\ pc = "done"
  /\ \E k \in 1..Len(events) : events[k].name = Quoted.name
  /\ load_existing_data(disk).events = events

(***************************************************************************)
(* C13 - Every run reaches PERSISTED: whatever the prior catalog file      *)
(* (missing, corrupt, saved earlier), nothing before save_data aborts the  *)
(* process; only the save itself can fail.                                 *)
(***************************************************************************)
C13_EveryRunReachesPersisted ==
  pc = "failed" => failedAt \in {"save", "add_event"}

(***************************************************************************)
(* C14 - Dateless events sort last: when the catalog being sorted holds an *)
(* event with no date, the sort completes and every such event is behind   *)
(* all dated events.                                                       *)
(***************************************************************************)
C14_DatelessSortLast ==
  /\ ~(pc = "failed" /\ failedAt = "sort")
  /\ pc \in {"rank", "save"} =>
       \A a, b \in 1..Len(events) :
         (a < b /\ Dateless(events[a])) => Dateless(events[b])

(***************************************************************************)
(* C15 - Intake excludes bad dates: add_event never stores an event whose  *)
(* date is None, missing or not a calendar date; such a candidate is       *)
(* dropped and the catalog is left unchanged.                              *)
(***************************************************************************)
C15_IntakeExcludesBadDates ==
  /\ \A k \in 1..Len(added) : LooksLikeDate(added[k].date)
  /\ (Returned /\ ~LooksLikeDate(arg.date)) => ret = "False" /\ post = prev

(***************************************************************************)
(* C16 - Accepted events are immutable except for rank: every event that   *)
(* was loaded or appended is still in the catalog with all its fields but  *)
(* '#' unchanged, whatever was offered or run afterwards; a candidate with *)
(* the same fingerprint and other fields does not overwrite it.            *)
(***************************************************************************)
C16_ImmutableButRank ==
  /\ AllKept(loaded, events)
  /\ AllKept(added, events)

\* the curated NeurIPS 2025 was in the catalog when a caller offered an
\* event with its fingerprint and another payload
C16_Witness ==
  /\ ret = "False" /\ arg = NeuripsOther
  /\ AllKept(<<major_events[1]>>, prev)
  /\ AllKept(<<major_events[1]>>, events)

(***************************************************************************)
(* C17 - Phase order of a run: the process moves load, merge, sort, rank,  *)
(* save in this order, no step twice in a run; the sort starts only when   *)
(* every candidate was merged, the ranks are assigned to the sorted        *)
(* catalog, and the catalog saved is the catalog left in memory.           *)
(***************************************************************************)
C17_PhaseOrder ==
  [][/\ pc' # pc => <<pc, pc'>> \in PhaseEdges
     /\ (pc' = "sort" /\ pc # "sort") =>
          idx' = Len(major_events) + 1 /\ CuratedIds \subseteq Ids(events')
     /\ (pc' = "rank" /\ pc # "rank") => SortedByKey(events')
     /\ (pc' = "save" /\ pc # "save") =>
          SortedByKey(events') /\ DenselyRanked(events')
     /\ pc = "save" =>
          events' = events /\ (pc' = "done" => Stored(disk') = events)]_vars

\* a run that merged new events came to its end
C17_Witness ==
  /\ pc = "done" /\ ~touched /\ new_events_added > 0
  /\ SortedByKey(events) /\ DenselyRanked(events)
  /\ Stored(disk) = events

(***************************************************************************)
(* C18 - Stable sort: events with equal date keep, after the sort, the     *)
(* relative order they had in the merged catalog before it.                *)
(***************************************************************************)
C18_StableSort ==
  pc = "rank" =>
    \A k \in 1..Len(post) :
      OnDate(events, post[k].date) = OnDate(post, post[k].date)

\* a sorted catalog with two events on one date
C18_Witness ==
  /\ pc = "rank"
  /\ \E a, b \in 1..Len(events) :
       a < b /\ events[a].date = events[b].date /\ events[a] # events[b]

(***************************************************************************)
(* C19 - Rebuild after corruption: when the catalog file exists and is     *)
(* corrupt, the run treats the prior state as empty and writes exactly the *)
(* curated events, sorted and ranked.                                      *)
(***************************************************************************)
C19_RebuildAfterCorruption ==
  diskAtStart.kind \in {"text", "bytes"} =>
    /\ failedAt # "load"
    /\ (pc = "done" /\ ~touched) =>
         Stored(disk) = number_events(sort_by_date(major_events))

(***************************************************************************)
(* C20 - Added-count accuracy: the count of crawl_major_ai_events is the   *)
(* number of events appended during the call, and count plus refused       *)
(* candidates is the number of candidates offered.                         *)
(***************************************************************************)
C20_AddedCount ==
  pc \in {"crawl", "sort"} =>
    /\ new_events_added = Len(events) - lenAtRun
    /\ new_events_added + skipped = idx - 1
    /\ pc = "sort" => new_events_added + skipped = Len(major_events)

\* the call returned after both adding and refusing candidates
C20_Witness ==
  /\ pc = "sort" /\ new_events_added > 0 /\ skipped > 0
  /\ new_events_added = Len(events) - lenAtRun

(***************************************************************************)
(* The storage location and the identity triple.                           *)
(***************************************************************************)
\* the two events have the same name, the same date and the same venue
SameTriple(e, f) == e.name = f.name /\ e.date = f.date /\ e.venue = f.venue

\* C21: for every configured path, a path without directory component
\* included, save_data creates the location and writes the full catalog:
\* no run fails in save_data, and after the save the file holds the whole
\* catalog of the run (later add_event calls only append to self.events)
C21_SaveCreatesLocation ==
  /\ ~(pc = "failed" /\ failedAt = "save")
  /\ (pc = "done" =>
        LET cat == Stored(disk)
        IN  /\ Len(cat) = lenAtRun + new_events_added
            /\ cat = SubSeq(events, 1, Len(cat)))

\* C22: identity is exactly the triple: a call of add_event that reports a
\* duplicate found a catalog entry with the same name, date and venue as
\* the candidate, also when fields contain the separator '_'
C22_IdentityIsTheTriple ==
  (Returned /\ ret = "False") =>
     \E k \in 1..Len(prev) : SameTriple(prev[k], arg)

====
